---- MODULE Spec2Model ----
(***************************************************************************)
(* Huffman coding (src/huffman.py): tree construction with heapq,          *)
(* codebook derivation, canonical codes, tree reconstruction from a        *)
(* codebook, encode and decode.                                            *)
(*                                                                         *)
(* Representation.  A Python str is a sequence of one-character strings.   *)
(* A dict is the sequence of its <<key, value>> items in insertion order.  *)
(* A HuffmanNode is a record [char, freq, left, right]; an attribute that  *)
(* is None is the empty sequence and a child n is <<n>>.  The codebook     *)
(* attribute, which only a root ever gets, is the variable codebook.       *)
(***************************************************************************)
EXTENDS Integers, Sequences, FiniteSets, TLC

\* ---------------------------------------------------------------- bounds
MaxSyms == 3
MaxFreq == 2
MaxText == 2
MaxBits == 3
MaxLen == 2
MaxCb == 2

\* ------------------------------------------------------- Python values
None == <<>>
Some(x) == <<x>>
NoChar == "None"

Alphabet == <<"a", "b", "c", "d", "e", "f", "g", "h", "i", "j", "k", "l", "m">>

\* position of a one-character symbol in the code-point order used by sorted()
Ord(c) == CHOOSE i \in 1..Len(Alphabet) : Alphabet[i] = c

RECURSIVE Pow2(_)
Pow2(n) == IF n <= 0 THEN 1 ELSE 2 * Pow2(n - 1)

Range(s) == {s[i] : i \in 1..Len(s)}

\* dict helpers
Keys(d) == {d[i][1] : i \in 1..Len(d)}
Get(d, k) == d[CHOOSE i \in 1..Len(d) : d[i][1] = k][2]
RECURSIVE Replace(_, _, _)
Replace(d, k, v) ==
    IF d = <<>> THEN <<>>
    ELSE <<IF Head(d)[1] = k THEN <<k, v>> ELSE Head(d)>> \o Replace(Tail(d), k, v)

DictSet(d, k, v) == IF k \in Keys(d) THEN Replace(d, k, v) ELSE Append(d, <<k, v>>)

\* ------------------------------------------------------- HuffmanNode
HuffmanNode(char, freq) ==
    [char |-> char, freq |-> freq, left |-> None, right |-> None]

\* the comparison turned round
LtWrong(x, y) == x.freq > y.freq
\* __lt__
Lt(x, y) == x.freq < y.freq

\* ------------------------------------------------------- heapq
At(heap, i) == heap[i + 1]
Put(heap, i, v) == [heap EXCEPT ![i + 1] = v]

RECURSIVE SiftDownLoop(_, _, _, _)
SiftDownLoop(heap, startpos, pos, newitem) ==
    IF pos > startpos
    THEN LET parentpos == (pos - 1) \div 2
             parent == At(heap, parentpos)
         IN  IF Lt(newitem, parent)
             THEN SiftDownLoop(Put(heap, pos, parent), startpos, parentpos, newitem)
             ELSE Put(heap, pos, newitem)
    ELSE Put(heap, pos, newitem)

siftdown(heap, startpos, pos) == SiftDownLoop(heap, startpos, pos, At(heap, pos))

RECURSIVE SiftUpLoop(_, _, _)
SiftUpLoop(heap, pos, newitem) ==
    LET endpos == Len(heap)
        childpos == 2 * pos + 1
        rightpos == childpos + 1
        pick == IF rightpos < endpos /\ ~Lt(At(heap, childpos), At(heap, rightpos))
                THEN rightpos ELSE childpos
    IN  IF childpos < endpos
        THEN SiftUpLoop(Put(heap, pos, At(heap, pick)), pick, newitem)
        ELSE [heap |-> Put(heap, pos, newitem), pos |-> pos]

siftup(heap, pos) ==
    LET r == SiftUpLoop(heap, pos, At(heap, pos))
    IN  siftdown(r.heap, pos, r.pos)

RECURSIVE HeapifyFrom(_, _)
HeapifyFrom(heap, i) ==
    IF i < 0 THEN heap ELSE HeapifyFrom(siftup(heap, i), i - 1)

heapify(x) == HeapifyFrom(x, (Len(x) \div 2) - 1)

heappop(heap) ==
    LET lastelt == heap[Len(heap)]
        rest == SubSeq(heap, 1, Len(heap) - 1)
    IN  IF Len(rest) > 0
        THEN [item |-> rest[1], heap |-> siftup(Put(rest, 0, lastelt), 0)]
        ELSE [item |-> lastelt, heap |-> rest]

heappush(heap, item) == siftdown(Append(heap, item), 0, Len(heap))

\* ------------------------------------------------------- from_freq
\* merged.right left unset
MergedNoRight(n1, n2) ==
    [char |-> NoChar, freq |-> n1.freq + n2.freq, left |-> Some(n1), right |-> None]
\* merged = cls(None, n1.freq + n2.freq); merged.left = n1; merged.right = n2
Merged(n1, n2) ==
    [char |-> NoChar, freq |-> n1.freq + n2.freq, left |-> Some(n1), right |-> Some(n2)]

RECURSIVE MergeLoop(_)
MergeLoop(heap) ==
    IF Len(heap) > 1
    THEN LET p1 == heappop(heap)
             p2 == heappop(p1.heap)
         IN  MergeLoop(heappush(p2.heap, Merged(p1.item, p2.item)))
    ELSE heap

\* heap = [cls(char, freq) for char, freq in freq_dict.items()]
RECURSIVE InitialHeap(_)
InitialHeap(freq_dict) ==
    IF freq_dict = <<>> THEN <<>>
    ELSE <<HuffmanNode(Head(freq_dict)[1], Head(freq_dict)[2])>>
             \o InitialHeap(Tail(freq_dict))

from_freq(freq_dict) == MergeLoop(heapify(InitialHeap(freq_dict)))[1]

\* ------------------------------------------------------- generate_codes
\* "0" appended for the right child too
RECURSIVE BuildCodesSameBit(_, _, _)
BuildCodesSameBit(node, prefix, cb) ==
    IF node.char # NoChar
    THEN DictSet(cb, node.char, prefix)
    ELSE LET cbl == IF node.left # None
                    THEN BuildCodesSameBit(node.left[1], Append(prefix, "0"), cb)
                    ELSE cb
         IN  IF node.right # None
             THEN BuildCodesSameBit(node.right[1], Append(prefix, "0"), cbl)
             ELSE cbl

\* _build_codes, the dict it fills threaded through
RECURSIVE build_codes(_, _, _)
build_codes(node, prefix, cb) ==
    IF node.char # NoChar
    THEN DictSet(cb, node.char, prefix)
    ELSE LET cbl == IF node.left # None
                    THEN build_codes(node.left[1], Append(prefix, "0"), cb)
                    ELSE cb
         IN  IF node.right # None
             THEN build_codes(node.right[1], Append(prefix, "1"), cbl)
             ELSE cbl

generate_codes(node) ==
    IF node.char # NoChar
    THEN <<<<node.char, <<"0">>>>>>
    ELSE build_codes(node, <<>>, <<>>)

\* ------------------------------------------------------- errors (ValueError messages)
NoError == "none"
ErrEmpty == "Frequency dictionary cannot be empty"
ErrMissing == "Characters not in tree"
ErrNonBinary == "Encoded string contains non-binary characters"
ErrInvalid == "Invalid encoded string"
ErrIncomplete == "Incomplete encoded string - ended mid-traversal"

Raise(msg) == [error |-> msg, value |-> None]
Return(v) == [error |-> NoError, value |-> Some(v)]

\* ------------------------------------------------------- encode
RECURSIVE JoinCodes(_, _)
JoinCodes(cb, t) ==
    IF t = <<>> THEN <<>> ELSE Get(cb, Head(t)) \o JoinCodes(cb, Tail(t))

encode(cb, t) ==
    LET missing_chars == Range(t) \ Keys(cb)
    IN  IF missing_chars # {} THEN Raise(ErrMissing) ELSE Return(JoinCodes(cb, t))

\* ------------------------------------------------------- decode
\* node is compared with self by value: a proper subtree never equals the tree
RECURSIVE DecodeLoop(_, _, _, _)
DecodeLoop(self, node, encoded, result) ==
    IF encoded = <<>>
    THEN IF node # self THEN Raise(ErrIncomplete) ELSE Return(result)
    ELSE LET next == IF Head(encoded) = "0" THEN node.left ELSE node.right
         IN  IF next = None
             THEN Raise(ErrInvalid)
             ELSE IF next[1].char # NoChar
                  THEN DecodeLoop(self, self, Tail(encoded), Append(result, next[1].char))
                  ELSE DecodeLoop(self, next[1], Tail(encoded), result)

IsBinary(encoded) == \A i \in 1..Len(encoded) : encoded[i] \in {"0", "1"}

decode(self, encoded) ==
    IF ~IsBinary(encoded)
    THEN Raise(ErrNonBinary)
    ELSE DecodeLoop(self, self, encoded, <<>>)

\* ------------------------------------------------------- canonical_huffman_codes
KeyLess(p, q) == p[2] < q[2] \/ (p[2] = q[2] /\ Ord(p[1]) < Ord(q[1]))

\* sorted(): stable, p goes before the first element that is greater than p
RECURSIVE InsertSorted(_, _)
InsertSorted(s, p) ==
    IF s = <<>> THEN <<p>>
    ELSE IF KeyLess(p, Head(s)) THEN <<p>> \o s
    ELSE <<Head(s)>> \o InsertSorted(Tail(s), p)

RECURSIVE SortedFrom(_, _, _)
SortedFrom(acc, s, i) ==
    IF i > Len(s) THEN acc ELSE SortedFrom(InsertSorted(acc, s[i]), s, i + 1)

sorted(s) == SortedFrom(<<>>, s, 1)

RECURSIVE Bin(_)
Bin(n) == IF n < 2 THEN <<IF n = 0 THEN "0" ELSE "1">>
          ELSE Append(Bin(n \div 2), IF n % 2 = 0 THEN "0" ELSE "1")

\* f"{code:0{length}b}": binary digits, zero-filled on the left to at least length
RECURSIVE ZeroFill(_, _)
ZeroFill(digits, length) ==
    IF Len(digits) >= length THEN digits ELSE ZeroFill(<<"0">> \o digits, length)

Format(code, length) == ZeroFill(Bin(code), length)

\* code += 1 left out
RECURSIVE CanonicalLoopNoIncrement(_, _, _, _, _)
CanonicalLoopNoIncrement(sorted_symbols, i, code, prev_len, cb) ==
    IF i > Len(sorted_symbols) THEN cb
    ELSE LET symbol == sorted_symbols[i][1]
             length == sorted_symbols[i][2]
             shifted == code * Pow2(length - prev_len)
         IN  CanonicalLoopNoIncrement(sorted_symbols, i + 1, shifted, length,
                                      DictSet(cb, symbol, Format(shifted, length)))

RECURSIVE CanonicalLoop(_, _, _, _, _)
CanonicalLoop(sorted_symbols, i, code, prev_len, cb) ==
    IF i > Len(sorted_symbols) THEN cb
    ELSE LET symbol == sorted_symbols[i][1]
             length == sorted_symbols[i][2]
             shifted == code * Pow2(length - prev_len)
         IN  CanonicalLoop(sorted_symbols, i + 1, shifted + 1, length,
                           DictSet(cb, symbol, Format(shifted, length)))

canonical_huffman_codes(symbols_with_lengths) ==
    CanonicalLoop(sorted(symbols_with_lengths), 1, 0, 0, <<>>)

\* ------------------------------------------------------- from_codebook
\* a child made anew on every step, whether or not one is there
RECURSIVE InsertCodeFresh(_, _, _)
InsertCodeFresh(node, code, symbol) ==
    IF code = <<>> THEN [node EXCEPT !.char = symbol]
    ELSE IF Head(code) = "0"
    THEN [node EXCEPT !.left =
            Some(InsertCodeFresh(HuffmanNode(NoChar, 0), Tail(code), symbol))]
    ELSE [node EXCEPT !.right =
            Some(InsertCodeFresh(HuffmanNode(NoChar, 0), Tail(code), symbol))]

\* the walk of one (symbol, code) item
RECURSIVE InsertCode(_, _, _)
InsertCode(node, code, symbol) ==
    IF code = <<>> THEN [node EXCEPT !.char = symbol]
    ELSE IF Head(code) = "0"
    THEN [node EXCEPT !.left =
            Some(InsertCode(IF node.left = None THEN HuffmanNode(NoChar, 0)
                            ELSE node.left[1], Tail(code), symbol))]
    ELSE [node EXCEPT !.right =
            Some(InsertCode(IF node.right = None THEN HuffmanNode(NoChar, 0)
                            ELSE node.right[1], Tail(code), symbol))]

RECURSIVE InsertAll(_, _, _)
InsertAll(root_, cb, i) ==
    IF i > Len(cb) THEN root_
    ELSE InsertAll(InsertCode(root_, cb[i][2], cb[i][1]), cb, i + 1)

from_codebook(cb) == InsertAll(HuffmanNode(NoChar, 0), cb, 1)

\* symbols_with_lengths = [(c, len(v)) for c, v in root.codebook.items()]
RECURSIVE LengthsOf(_)
LengthsOf(cb) ==
    IF cb = <<>> THEN <<>>
    ELSE <<<<Head(cb)[1], Len(Head(cb)[2])>>>> \o LengthsOf(Tail(cb))

\* ------------------------------------------------------- inputs
SeqsUpTo(S, n) == UNION {[1..k -> S] : k \in 0..n}

\* a frequency table whose i-th inserted key is the i-th letter
RECURSIVE Keyed(_, _)
Keyed(values, i) ==
    IF i > Len(values) THEN <<>>
    ELSE <<<<Alphabet[i], values[i]>>>> \o Keyed(values, i + 1)

TableOf(counts) == Keyed(counts, 1)

FREQ_HUFFMAN_PAPER == TableOf(<<20, 18, 10, 10, 10, 6, 6, 4, 4, 4, 4, 3, 1>>)
FREQ_MAC_KAY5_5 == TableOf(<<25, 25, 20, 15, 15>>)
FREQ_MAC_KAY5_7 == TableOf(<<1, 24, 5, 20, 47, 1, 2>>)
Fixtures == {FREQ_HUFFMAN_PAPER, FREQ_MAC_KAY5_5, FREQ_MAC_KAY5_7}

Symbols == {Alphabet[i] : i \in 1..MaxSyms}
FreqInputs == {TableOf(c) : c \in SeqsUpTo(0..MaxFreq, MaxSyms)} \cup Fixtures
TextInputs == SeqsUpTo(Symbols, MaxText)
BitInputs == SeqsUpTo({"0", "1", "2"}, MaxBits)

\* (symbol, length) lists: distinct symbols in any order, positive lengths
PairInputs ==
    {p \in SeqsUpTo(Symbols \X (1..MaxLen), MaxSyms) :
        \A i, j \in 1..Len(p) : i # j => p[i][1] # p[j][1]}

\* codebooks whose i-th inserted key is the i-th letter, any bit strings as codes
CodebookInputs ==
    {Keyed(c, 1) : c \in SeqsUpTo(SeqsUpTo({"0", "1"}, MaxLen), MaxCb)}

\* ------------------------------------------------------- state
VARIABLES
    freq,      \* Some(table) given to the last from_freq, else None
    root,      \* Some(tree), None before any tree is built
    codebook,  \* root.codebook
    origin,    \* how root was built
    lens,      \* Some(symbols_with_lengths) of the last canonical_huffman_codes
    codes,     \* Some(its result)
    op,        \* the last call
    text,      \* argument of the last encode
    encoded,   \* its result
    bits,      \* argument of the last decode
    decoded,   \* its result
    error      \* message of the ValueError the last call raised, or NoError

vars == <<freq, root, codebook, origin, lens, codes, op, text, encoded, bits, decoded, error>>

NoCall == text' = None /\ encoded' = None /\ bits' = None /\ decoded' = None

Init ==
    /\ freq = None /\ root = None /\ codebook = None /\ origin = "none"
    /\ lens = None /\ codes = None /\ op = "init"
    /\ text = None /\ encoded = None /\ bits = None /\ decoded = None
    /\ error = NoError

\* root = HuffmanNode.from_freq(fd).  A behaviour builds its tree once.
FromFreq ==
    /\ op = "init"
    /\ \E fd \in FreqInputs :
        /\ freq' = Some(fd)
        /\ IF Len(fd) = 0
           THEN root' = None /\ codebook' = None /\ origin' = "none"
                  /\ error' = ErrEmpty
           ELSE LET r == from_freq(fd)
                IN  /\ root' = Some(r)
                    /\ codebook' = Some(generate_codes(r))
                    /\ origin' = "from_freq"
                    /\ error' = NoError
    /\ lens' = None /\ codes' = None
    /\ op' = "from_freq"
    /\ NoCall

\* codes = canonical_huffman_codes(pairs), on a receiver that holds no tree yet
Canonical ==
    /\ op = "init"
    /\ \E pairs \in PairInputs :
        /\ lens' = Some(pairs)
        /\ codes' = Some(canonical_huffman_codes(pairs))
    /\ freq' = None /\ root' = None /\ codebook' = None /\ origin' = "none"
    /\ error' = NoError
    /\ op' = "canonical"
    /\ NoCall

\* ex4: the code lengths of the from_freq codebook are canonicalized
CanonicalOfTree ==
    /\ op = "from_freq" /\ origin = "from_freq"
    /\ lens' = Some(LengthsOf(codebook[1]))
    /\ codes' = Some(canonical_huffman_codes(LengthsOf(codebook[1])))
    /\ error' = NoError
    /\ op' = "canonical"
    /\ NoCall
    /\ UNCHANGED <<freq, root, codebook, origin>>

\* ex4: root = HuffmanNode.from_codebook(codes)
FromCodes ==
    /\ op = "canonical"
    /\ root' = Some(from_codebook(codes[1]))
    /\ codebook' = codes
    /\ origin' = IF origin = "from_freq" THEN "ex4" ELSE "canonical"
    /\ lens' = None /\ codes' = None
    /\ error' = NoError
    /\ op' = "from_codebook"
    /\ NoCall
    /\ UNCHANGED freq

\* root = HuffmanNode.from_codebook(cb)
FromCodebook ==
    /\ op = "init"
    /\ \E cb \in CodebookInputs :
        /\ root' = Some(from_codebook(cb))
        /\ codebook' = Some(cb)
    /\ origin' = "from_codebook"
    /\ freq' = None /\ lens' = None /\ codes' = None
    /\ error' = NoError
    /\ op' = "from_codebook"
    /\ NoCall

\* encode and decode read root and codebook and write neither: what a call
\* returns depends on the tree and the argument alone, so each behaviour makes
\* its call on the tree as built.
Callable == root # None /\ op \in {"from_freq", "from_codebook"}

\* encoded = root.encode(t)
Encode ==
    /\ Callable
    /\ \E t \in TextInputs :
        LET r == encode(codebook[1], t)
        IN  text' = Some(t) /\ encoded' = r.value /\ error' = r.error
    /\ bits' = None /\ decoded' = None
    /\ op' = "encode"
    /\ UNCHANGED <<freq, root, codebook, origin, lens, codes>>

\* decoded = root.decode(b)
Decode ==
    /\ Callable
    /\ \E b \in BitInputs :
        LET r == decode(root[1], b)
        IN  bits' = Some(b) /\ decoded' = r.value /\ error' = r.error
    /\ text' = None /\ encoded' = None
    /\ op' = "decode"
    /\ UNCHANGED <<freq, root, codebook, origin, lens, codes>>

\* ex1: encoded = root.encode(t); decoded = root.decode(encoded)
RoundTrip ==
    /\ Callable
    /\ \E t \in TextInputs :
        LET e == encode(codebook[1], t)
        IN  /\ text' = Some(t)
            /\ encoded' = e.value
            /\ IF e.error # NoError
               THEN bits' = None /\ decoded' = None /\ error' = e.error
               ELSE LET d == decode(root[1], e.value[1])
                    IN  bits' = e.value /\ decoded' = d.value /\ error' = d.error
    /\ op' = "roundtrip"
    /\ UNCHANGED <<freq, root, codebook, origin, lens, codes>>

Next ==
    \/ FromFreq
    \/ Canonical
    \/ CanonicalOfTree
    \/ FromCodes
    \/ FromCodebook
    \/ Encode
    \/ Decode
    \/ RoundTrip

Spec == Init /\ [][Next]_vars

\* ======================================================= properties
IsPrefix(p, q) == Len(p) <= Len(q) /\ SubSeq(q, 1, Len(p)) = p

\* no symbol's code is a prefix of (or equal to) another symbol's code
PrefixFree(cb) ==
    \A i, j \in 1..Len(cb) : i # j => ~IsPrefix(cb[i][2], cb[j][2])

NonEmptyBitStrings(cb) ==
    \A i \in 1..Len(cb) : Len(cb[i][2]) > 0 /\ Range(cb[i][2]) \subseteq {"0", "1"}

HasStrictPrefixPair(cb) ==
    \E i, j \in 1..Len(cb) :
        i # j /\ IsPrefix(cb[i][2], cb[j][2]) /\ Len(cb[i][2]) < Len(cb[j][2])

RECURSIVE SumOver(_, _)
SumOver(f, n) == IF n = 0 THEN 0 ELSE f[n] + SumOver(f, n - 1)

MaxOf(S) == CHOOSE x \in S : \A y \in S : y <= x
MinOf(S) == CHOOSE x \in S : \A y \in S : x <= y

\* Kraft inequality for lengths l[1..n], in integers: sum of 2^(m - l[i]) <= 2^m
KraftSum(l, m) == SumOver([i \in 1..Len(l) |-> Pow2(m - l[i])], Len(l))
LengthsList(pairs) == [i \in 1..Len(pairs) |-> pairs[i][2]]
MaxLength(pairs) == MaxOf({0} \cup {pairs[i][2] : i \in 1..Len(pairs)})
Kraft(pairs) ==
    KraftSum(LengthsList(pairs), MaxLength(pairs)) <= Pow2(MaxLength(pairs))
Complete(cb) ==
    KraftSum(LengthsList(LengthsOf(cb)), MaxLength(LengthsOf(cb)))
        = Pow2(MaxLength(LengthsOf(cb)))

\* sum over the table's symbols of frequency times code length
WeightedLength(fd, cb) ==
    SumOver([i \in 1..Len(fd) |-> fd[i][2] * Len(Get(cb, fd[i][1]))], Len(fd))

\* the least weighted length of any binary prefix code for the table whose
\* codes have 1..Len(fd) bits: by Kraft-McMillan these are the length
\* assignments that satisfy the Kraft inequality
MinWeightedLength(fd) ==
    LET n == Len(fd)
    IN  MinOf({SumOver([i \in 1..n |-> fd[i][2] * l[i]], n) :
                 l \in {k \in [1..n -> 1..n] : KraftSum(k, n) <= Pow2(n)}})

\* the nodes of a tree
RECURSIVE Nodes(_)
Nodes(n) ==
    {n} \cup (IF n.left = None THEN {} ELSE Nodes(n.left[1]))
        \cup (IF n.right = None THEN {} ELSE Nodes(n.right[1]))

NumChildren(n) ==
    (IF n.left = None THEN 0 ELSE 1) + (IF n.right = None THEN 0 ELSE 1)

SymbolNodesAreLeaves(t) == \A n \in Nodes(t) : n.char # NoChar => NumChildren(n) = 0
InternalNodesHaveTwo(t) == \A n \in Nodes(t) : n.char = NoChar => NumChildren(n) = 2

\* a bit string cut into code words of cb, as far as it goes
RECURSIVE Parse(_, _, _)
Parse(cb, b, out) ==
    LET hits == {i \in 1..Len(cb) : Len(cb[i][2]) > 0 /\ IsPrefix(cb[i][2], b)}
    IN  IF b = <<>> \/ hits = {}
        THEN [complete |-> b = <<>>, out |-> out]
        ELSE LET i == CHOOSE i \in hits : TRUE
             IN  Parse(cb, SubSeq(b, Len(cb[i][2]) + 1, Len(b)), Append(out, cb[i][1]))

RECURSIVE BinValue(_)
BinValue(b) ==
    IF b = <<>> THEN 0
    ELSE 2 * BinValue(SubSeq(b, 1, Len(b) - 1)) + (IF b[Len(b)] = "1" THEN 1 ELSE 0)

FromCodebookOrigins == {"from_codebook", "canonical", "ex4"}
TreeBuilt == op \in {"from_freq", "from_codebook"} /\ root # None

\* ------------------------------------------------------- C1
\* C1: for every non-empty table, one-symbol tables included, and every text
\* over the table's symbols, decode(encode(text)) on the from_freq tree
\* returns the text.
C1_RoundTrip ==
    (origin = "from_freq" /\ op = "roundtrip"
        /\ Range(text[1]) \subseteq Keys(freq[1]))
    => (error = NoError /\ decoded = text)

\* ------------------------------------------------------- C2
\* C2: the from_freq codebook has the least weighted code length of all binary
\* prefix codes for the table (one bit per occurrence for a one-symbol table);
\* the paper's 13-symbol table gives 342 and MacKay's 5-symbol table 230.
C2_Optimal ==
    (origin = "from_freq" /\ op = "from_freq")
    => LET fd == freq[1]
           lav == WeightedLength(fd, codebook[1])
       IN  /\ fd = FREQ_HUFFMAN_PAPER => lav = 342
           /\ fd = FREQ_MAC_KAY5_5 => lav = 230
           /\ fd \notin {FREQ_HUFFMAN_PAPER, FREQ_MAC_KAY5_7}
                => lav = MinWeightedLength(fd)

C2_Witness ==
    /\ origin = "from_freq" /\ op = "from_freq"
    /\ freq = Some(FREQ_HUFFMAN_PAPER)
    /\ WeightedLength(freq[1], codebook[1]) = 342

\* ------------------------------------------------------- C3
\* C3: the from_freq codebook gives every symbol of the table a non-empty bit
\* string, and no code is a prefix of another symbol's code.
C3_PrefixCode ==
    (origin = "from_freq" /\ op = "from_freq")
    => /\ Keys(codebook[1]) = Keys(freq[1])
       /\ Len(codebook[1]) = Len(freq[1])
       /\ NonEmptyBitStrings(codebook[1])
       /\ PrefixFree(codebook[1])

\* a three-symbol table with a zero count and a tie
C3_Witness ==
    /\ origin = "from_freq" /\ op = "from_freq"
    /\ Len(freq[1]) = 3
    /\ freq[1][1][2] = 0 /\ freq[1][2][2] = freq[1][3][2] /\ freq[1][2][2] > 0
    /\ PrefixFree(codebook[1])

\* ------------------------------------------------------- C4
\* C4: on the tree from_codebook builds for a prefix-free codebook of non-empty
\* bit strings, decode(encode(s)) = s for every s over the codebook's symbols;
\* the canonical codebook made from the code lengths of a from_freq codebook is
\* such a codebook, also for a one-symbol table.
C4_CodebookRoundTrip ==
    /\ origin = "ex4"
         => /\ PrefixFree(codebook[1]) /\ NonEmptyBitStrings(codebook[1])
            /\ Keys(codebook[1]) = Keys(freq[1])
            /\ freq[1] = FREQ_MAC_KAY5_7
                 => WeightedLength(freq[1], codebook[1]) = 197
    /\ (origin \in FromCodebookOrigins /\ op = "roundtrip"
          /\ PrefixFree(codebook[1]) /\ NonEmptyBitStrings(codebook[1])
          /\ Range(text[1]) \subseteq Keys(codebook[1]))
       => (error = NoError /\ decoded = text)

\* the lengths-only flow for a one-symbol table, two occurrences decoded
C4_Witness ==
    /\ origin = "ex4" /\ op = "roundtrip"
    /\ Len(freq[1]) = 1
    /\ text = Some(<<"a", "a">>)
    /\ encoded = Some(<<"0", "0">>)
    /\ decoded = text

\* ------------------------------------------------------- C5
\* C5: canonical_huffman_codes gives each symbol a bit string of exactly its
\* input length, and in (length, symbol) order the codes, left-aligned to the
\* maximum length, have strictly increasing numeric value.
C5_LengthsAndOrder ==
    op = "canonical"
    => LET pairs == sorted(lens[1])
           m == MaxLength(pairs)
           v(i) == BinValue(Get(codes[1], pairs[i][1])) * Pow2(m - pairs[i][2])
       IN  /\ \A i \in 1..Len(pairs) : Len(Get(codes[1], pairs[i][1])) = pairs[i][2]
           /\ \A i \in 1..(Len(pairs) - 1) : v(i) < v(i + 1)

\* ------------------------------------------------------- C6
\* C6: when the lengths violate the Kraft inequality, canonical_huffman_codes
\* ends in an error and returns no codebook.
C6_OverflowIsError ==
    (op = "canonical" /\ ~Kraft(lens[1])) => (error # NoError /\ codes = None)

\* ------------------------------------------------------- C7
\* C7: from_codebook fails and returns no tree when one code of the codebook is
\* a strict prefix of another, in either insertion order.
C7_ConflictIsError ==
    (op = "from_codebook" /\ HasStrictPrefixPair(codebook[1]))
    => (error # NoError /\ root = None)

\* ------------------------------------------------------- C8
\* C8: decode on a from_freq tree: a non-binary character anywhere gives the
\* non-binary error; binary input that does not end on a code word boundary
\* gives the incomplete error; otherwise the full symbol sequence is returned.
\* An error never comes with symbols.
C8_DecodeOutcomes ==
    (origin = "from_freq" /\ op = "decode")
    => LET p == Parse(codebook[1], bits[1], <<>>)
       IN  IF ~IsBinary(bits[1])
           THEN error = ErrNonBinary /\ decoded = None
           ELSE IF ~p.complete
           THEN error = ErrIncomplete /\ decoded = None
           ELSE error = NoError /\ decoded = Some(p.out)

\* ------------------------------------------------------- C9
\* C9 as claimed: in every tree from from_freq, or from from_codebook for a
\* prefix-free codebook, internal nodes have exactly two children and symbol
\* nodes none.
C9_AllInternalHaveTwo ==
    (TreeBuilt /\ (origin = "from_freq" \/ PrefixFree(codebook[1])))
    => (InternalNodesHaveTwo(root[1]) /\ SymbolNodesAreLeaves(root[1]))

\* C9 amended: that holds of every from_freq tree; in a from_codebook tree for
\* a prefix-free codebook symbol nodes have no children, and every internal
\* node has two children exactly when the codebook is complete (its Kraft sum
\* is 1) - otherwise some internal node has one child, or none.
C9_TwoChildrenIffComplete ==
    /\ (TreeBuilt /\ origin = "from_freq")
       => (InternalNodesHaveTwo(root[1]) /\ SymbolNodesAreLeaves(root[1]))
    /\ (TreeBuilt /\ origin \in FromCodebookOrigins /\ PrefixFree(codebook[1]))
       => /\ SymbolNodesAreLeaves(root[1])
          /\ InternalNodesHaveTwo(root[1]) <=> Complete(codebook[1])

\* the canonical codebook of a one-symbol alphabet: the root has one child
C9_Witness ==
    /\ TreeBuilt /\ origin \in {"canonical", "ex4"}
    /\ codebook = Some(<<<<"a", <<"0">>>>>>)
    /\ root[1].char = NoChar /\ root[1].left # None /\ root[1].right = None

\* ------------------------------------------------------- C10
\* C10: the codebook canonical_huffman_codes returns is prefix-free exactly
\* when the input lengths satisfy the Kraft inequality.
C10_PrefixFreeIffKraft ==
    op = "canonical" => (PrefixFree(codes[1]) <=> Kraft(lens[1]))

\* lengths 1, 1, 1: Kraft fails and "1" is a prefix of "10"
C10_Witness ==
    /\ op = "canonical" /\ Len(lens[1]) = 3
    /\ \A i \in 1..3 : lens[1][i][2] = 1
    /\ ~Kraft(lens[1]) /\ ~PrefixFree(codes[1])

====
